---- MODULE Spec2Model ----
(***************************************************************************)
(* Model of scripts/verify-app.py: the PrivacySuiteVerifier crawl          *)
(* (public routes, authentication gate, static-route seeding, harvest of   *)
(* detail links, breadth-first crawl loop, report compilation, exit code). *)
(*                                                                         *)
(* Representation.  A URL is a record [origin, route, id]: route is the    *)
(* sequence of path segments and id a numeric trailing segment (None when  *)
(* absent), so [BASE_URL, <<"privacy","vendors">>, 7] is                   *)
(* http://localhost:3001/privacy/vendors/7.  An href is the same with the  *)
(* form in which it is written in the page.  What the browser shows for a  *)
(* navigation is an observation, drawn from a bounded set.                 *)
(***************************************************************************)
EXTENDS Integers, Sequences, FiniteSets, TLC

VARIABLES
    pc,                 \* position in run() / main()
    site,               \* which web application is under test (input)
    route_idx,          \* index of the for loop over PUBLIC_ROUTES
    visited_urls,       \* self.visited_urls
    pending_urls,       \* self.pending_urls
    results,            \* self.report.results
    observed,           \* what the browser showed for results[i] (history)
    enqueued,           \* every append to pending_urls so far (history)
    page_count,         \* local page_count of run()
    compile_idx,        \* position of the for loop of _compile_report
    auth,               \* outcome of authenticate(): "none", "ok", "failed"
    auth_obs,           \* what the browser showed during authenticate()
    report,             \* the counters of self.report
    exit_code           \* argument of sys.exit, NotExited before

vars == <<pc, site, route_idx, visited_urls, pending_urls, results, observed,
          enqueued, page_count, compile_idx, auth, auth_obs, report,
          exit_code>>

---------------------------------------------------------------------------
(* Configuration *)

BASE_URL == "http://localhost:3001"
OTHER_ORIGIN == "http://cdn.example"
MAX_PAGES == 100

None == 0
NotExited == 0 - 1
NoPath == <<>>

(* Bounds of the explored inputs *)
ChainLen == 88          \* detail pages of the large site, linked in a chain
CycleLen == 3           \* detail pages of the small site, linked in a cycle
MaxLogs == 2            \* console messages logged during one navigation

STATIC_ROUTES ==
    << <<"privacy">>,
       <<"privacy", "data-inventory">>,
       <<"privacy", "data-inventory", "new">>,
       <<"privacy", "data-inventory", "processing-activities">>,
       <<"privacy", "dsar">>,
       <<"privacy", "dsar", "settings">>,
       <<"privacy", "assessments">>,
       <<"privacy", "assessments", "new">>,
       <<"privacy", "assessments", "templates">>,
       <<"privacy", "incidents">>,
       <<"privacy", "incidents", "new">>,
       <<"privacy", "vendors">>,
       <<"privacy", "vendors", "new">>,
       <<"privacy", "vendors", "questionnaires">> >>

PUBLIC_ROUTES == << <<"sign-in">>, <<"dsar", "demo">> >>

\* f"{BASE_URL}{route}"
RouteUrl(route) == [origin |-> BASE_URL, route |-> route, id |-> None]

---------------------------------------------------------------------------
(* hrefs and string tests on them *)

\* forms: "skip" is #..., javascript:, mailto:, tel:; "rel" is /a/b;
\* "protorel" is //host/a/b; "abs" is scheme://host/a/b
Href(form, origin, route, id) ==
    [form |-> form, origin |-> origin, route |-> route, id |-> id]

Rel(route, id) == Href("rel", "", route, id)

\* segments s and needles n such that s starts with n
SegPrefix ==
    { <<"new", "new">>, <<"processing-activities", "processing">>,
      <<"settings", "settings">>, <<"templates", "templates">>,
      <<"questionnaires", "questionnaires">>,
      <<"privacy", "privacy">>, <<"sign-in", "sign-in">> }

\* "/<needle>" in href
HrefHas(h, needle) ==
    \E k \in DOMAIN h.route : <<h.route[k], needle>> \in SegPrefix

\* segments matched by \[.*\]
BracketSegs == {"[id]", "[...slug]"}

\* re.search(r'/\[.*\]', href)
IsDynamic(h) == \E k \in DOMAIN h.route : h.route[k] \in BracketSegs

\* href.startswith("/")
StartsWithSlash(h) == h.form \in {"rel", "protorel"}

\* href.startswith(BASE_URL)
StartsWithBase(h) == h.form = "abs" /\ h.origin = BASE_URL

\* urljoin(BASE_URL, href)
urljoin(h) ==
    [origin |-> IF h.form = "rel" THEN BASE_URL ELSE h.origin,
     route |-> h.route, id |-> h.id]

\* the CSS selector a[href*="/<a>/<b>/"]
MatchesSelector(h, a, b) ==
    \E k \in DOMAIN h.route :
        /\ k + 1 \in DOMAIN h.route
        /\ h.route[k] = a
        /\ h.route[k + 1] = b
        /\ (Len(h.route) > k + 1 \/ h.id # None)

Contains(seq, x) == \E k \in DOMAIN seq : seq[k] = x

---------------------------------------------------------------------------
(* test_page *)

error_indicators ==
    {"404", "not found", "error occurred", "something went wrong",
     "unhandled runtime error", "application error"}

\* any(indicator in page_text for indicator in error_indicators); page_text
\* is given by the set of phrases that occur in it
HasIndicator(page_text) == \E ind \in error_indicators : ind \in page_text

\* the texts of the logs of one type, in order
RECURSIVE LogsOfType(_, _)
LogsOfType(logs, type) ==
    IF logs = <<>> THEN <<>>
    ELSE (IF Head(logs).type = type THEN <<Head(logs).text>> ELSE <<>>)
         \o LogsOfType(Tail(logs), type)

\* _take_screenshot: the path names the prefix and the page
TakeScreenshot(url, prefix) == <<prefix, url.route, url.id>>

\* the for loop over the a[href] elements: acc is
\* [found, pending, added] (links_found, self.pending_urls, new appends)
RECURSIVE DiscoverLinks(_, _, _)
DiscoverLinks(links, visited, acc) ==
    IF links = <<>> THEN acc
    ELSE
        LET href == Head(links)
            rest == Tail(links)
        IN  IF href.form = "skip" THEN DiscoverLinks(rest, visited, acc)
            ELSE IF ~(StartsWithSlash(href) \/ StartsWithBase(href))
            THEN DiscoverLinks(rest, visited, acc)
            ELSE
                LET full_url == IF StartsWithSlash(href) THEN urljoin(href)
                                ELSE [origin |-> href.origin,
                                      route |-> href.route, id |-> href.id]
                    add == /\ full_url \notin visited
                           /\ ~Contains(acc.pending, full_url)
                           /\ ~IsDynamic(href)
                IN  DiscoverLinks(rest, visited,
                        [found |-> Append(acc.found, full_url),
                         pending |-> IF add THEN Append(acc.pending, full_url)
                                     ELSE acc.pending,
                         added |-> IF add THEN Append(acc.added, full_url)
                                   ELSE acc.added])

PageResult(url) ==
    [url |-> url, status |-> "pending", http_status |-> None,
     console_errors |-> <<>>, console_warnings |-> <<>>,
     links_found |-> <<>>, error_message |-> "None",
     screenshot_path |-> NoPath]

\* mutant: the console test comes before the error test
Classify_ConsoleFirst(has_error, http_status, console_errors) ==
    IF console_errors # <<>> THEN "warning"
    ELSE IF has_error \/ http_status >= 400 THEN "error"
    ELSE "success"

\* "Determine status": the if / elif / else on the loaded page
Classify(has_error, http_status, console_errors) ==
    IF has_error \/ http_status >= 400 THEN "error"
    ELSE IF console_errors # <<>> THEN "warning"
    ELSE "success"

\* mutant: the except branch takes no screenshot
OnException_NoShot(result, url, obs) ==
    [result EXCEPT !.status = "error", !.error_message = "exception"]

\* the except branch of test_page, entered with the result built so far
OnException(result, url, obs) ==
    [result EXCEPT
        !.status = "error",
        !.error_message = "exception",
        !.screenshot_path =
            IF obs.handlerShotThrows THEN result.screenshot_path
            ELSE TakeScreenshot(url, "error")]

\* test_page(url) when the browser shows obs: [result, pending, added]
test_page(url, obs, visited, pending) ==
    LET r0 == PageResult(url)
        keep(res) == [result |-> res, pending |-> pending, added |-> <<>>]
    IN
    IF obs.throwAt = "goto" THEN keep(OnException(r0, url, obs))
    ELSE
        LET r1 == [r0 EXCEPT !.http_status =
                        IF obs.response_status = None THEN 200
                        ELSE obs.response_status]
        IN
        IF obs.throwAt = "content" THEN keep(OnException(r1, url, obs))
        ELSE
            LET overlay == obs.overlay_count > 0
                has_error == HasIndicator(obs.page_text) \/ overlay
                disc == DiscoverLinks(obs.links, visited,
                            [found |-> <<>>, pending |-> pending,
                             added |-> <<>>])
                r2 == [r1 EXCEPT
                        !.error_message =
                            IF overlay THEN "Next.js error overlay detected"
                            ELSE "None",
                        !.console_errors = LogsOfType(obs.logs, "error"),
                        !.console_warnings = LogsOfType(obs.logs, "warning"),
                        !.links_found = disc.found]
                out(res) == [result |-> res, pending |-> disc.pending,
                             added |-> disc.added]
                status == Classify(has_error, r2.http_status,
                                   r2.console_errors)
                r3 == [r2 EXCEPT !.status = status]
            IN
            IF obs.throwAt = "count" THEN out(OnException(r2, url, obs))
            ELSE IF status = "success" THEN out(r3)
            ELSE IF obs.throwAt = "screenshot"
            THEN out(OnException(r3, url, obs))
            ELSE out([r3 EXCEPT
                        !.screenshot_path = TakeScreenshot(url, status)])

---------------------------------------------------------------------------
(* authenticate *)

\* "/<needle>" in current_url; the URL is [route, callback], callback being
\* the path carried unescaped by a callbackUrl query parameter (<<>>: none)
UrlHas(u, needle) ==
    \/ \E k \in DOMAIN u.route : <<u.route[k], needle>> \in SegPrefix
    \/ \E k \in DOMAIN u.callback : <<u.callback[k], needle>> \in SegPrefix

\* authenticate() when the browser shows a
authenticate(a) ==
    IF a.throws THEN FALSE
    ELSE IF a.emailVisible /\ a.buttonVisible
              /\ (UrlHas(a.current_url, "privacy")
                  \/ ~UrlHas(a.current_url, "sign-in"))
         THEN TRUE
         ELSE FALSE

---------------------------------------------------------------------------
(* test_dynamic_routes *)

\* links[:2]
FirstTwo(seq) == SubSeq(seq, 1, IF Len(seq) < 2 THEN Len(seq) ELSE 2)

RECURSIVE JoinAll(_)
JoinAll(hrefs) ==
    IF hrefs = <<>> THEN <<>>
    ELSE <<urljoin(Head(hrefs))>> \o JoinAll(Tail(hrefs))

\* one block of test_dynamic_routes: the first two anchors matching
\* a[href*="/privacy/<list>/"], without those that contain an excluded word
HarvestBlock(anchors, list, excluded) ==
    LET sel(h) == MatchesSelector(h, "privacy", list)
        ok(h) == \A w \in excluded : ~HrefHas(h, w)
    IN  JoinAll(SelectSeq(FirstTwo(SelectSeq(anchors, sel)), ok))

\* dynamic_routes once the five list pages were visited
DynamicRoutes(anchors) ==
    HarvestBlock(anchors["data-inventory"], "data-inventory",
                 {"new", "processing"})
    \o HarvestBlock(anchors["dsar"], "dsar", {"settings"})
    \o HarvestBlock(anchors["assessments"], "assessments",
                    {"new", "templates"})
    \o HarvestBlock(anchors["incidents"], "incidents", {"new"})
    \o HarvestBlock(anchors["vendors"], "vendors", {"new", "questionnaires"})

\* the "Add unique routes" loop: acc is [pending, added]
RECURSIVE AddUnique(_, _, _)
AddUnique(routes, visited, acc) ==
    IF routes = <<>> THEN acc
    ELSE
        LET route == Head(routes)
            add == route \notin visited /\ ~Contains(acc.pending, route)
        IN  AddUnique(Tail(routes), visited,
                [pending |-> IF add THEN Append(acc.pending, route)
                             ELSE acc.pending,
                 added |-> IF add THEN Append(acc.added, route)
                           ELSE acc.added])

---------------------------------------------------------------------------
(* _compile_report *)

EmptyReport ==
    [total_pages |-> 0, pages_passed |-> 0, pages_with_warnings |-> 0,
     pages_failed |-> 0, total_console_errors |-> 0]

\* mutant: "if" instead of "elif": a warning also falls into the else
Tally_IfNotElif(rep, result) ==
    [total_pages |-> rep.total_pages + 1,
     pages_passed |->
        rep.pages_passed + (IF result.status = "success" THEN 1 ELSE 0),
     pages_with_warnings |->
        rep.pages_with_warnings
        + (IF result.status = "warning" THEN 1 ELSE 0),
     pages_failed |->
        rep.pages_failed + (IF result.status # "success" THEN 1 ELSE 0),
     total_console_errors |->
        rep.total_console_errors + Len(result.console_errors)]

\* one iteration of the loop of _compile_report
Tally(rep, result) ==
    [total_pages |-> rep.total_pages + 1,
     pages_passed |->
        rep.pages_passed + (IF result.status = "success" THEN 1 ELSE 0),
     pages_with_warnings |->
        rep.pages_with_warnings
        + (IF result.status # "success" /\ result.status = "warning"
           THEN 1 ELSE 0),
     pages_failed |->
        rep.pages_failed
        + (IF result.status # "success" /\ result.status # "warning"
           THEN 1 ELSE 0),
     total_console_errors |->
        rep.total_console_errors + Len(result.console_errors)]

---------------------------------------------------------------------------
(* The web applications explored: what the browser can show *)

\* "small": a few pages, a cycle of CycleLen detail pages, any mix of links,
\*          harvested anchors, sign-in outcomes and navigation failures;
\* "flaky": one page of the small site shows every kind of outcome;
\* "large": a chain of ChainLen detail pages, more than the page cap
Sites == {"small", "flaky", "large"}

VendorsRoute == <<"privacy", "vendors">>
SignInUrl == RouteUrl(PUBLIC_ROUTES[1])
DashboardUrl == RouteUrl(STATIC_ROUTES[1])
FlakyUrl == RouteUrl(STATIC_ROUTES[Len(STATIC_ROUTES)])

LogTypes == {"error", "warning"}
LogSeqs ==
    UNION { [1..n -> {[type |-> t, text |-> "message"] : t \in LogTypes}]
            : n \in 0..MaxLogs }

ThrowPoints == {"none", "goto", "content", "count", "screenshot"}
ResponseStatuses == {None, 200, 404}
PageTexts == {{"welcome"}, {"page", "not found"}}

NominalObs(links) ==
    [throwAt |-> "none", response_status |-> 200, page_text |-> {"welcome"},
     overlay_count |-> 0, logs |-> <<>>, links |-> links,
     handlerShotThrows |-> FALSE]

\* a few outcomes of each class
SmallObs(links) ==
    { NominalObs(links),
      [NominalObs(links) EXCEPT
          !.logs = <<[type |-> "error", text |-> "message"]>>],
      [NominalObs(links) EXCEPT
          !.response_status = 404, !.page_text = {"page", "not found"}],
      [NominalObs(<<>>) EXCEPT !.throwAt = "goto", !.response_status = None] }

\* every outcome; what is not observed before the throw is left nominal
FullObs(links) ==
    { o \in [throwAt : ThrowPoints, response_status : ResponseStatuses,
             page_text : PageTexts, overlay_count : {0, 1}, logs : LogSeqs,
             links : {links}, handlerShotThrows : BOOLEAN] :
        /\ o.throwAt = "none" => ~o.handlerShotThrows
        /\ o.throwAt = "goto" =>
              [o EXCEPT !.handlerShotThrows = FALSE, !.throwAt = "none",
                        !.response_status = 200] = NominalObs(links)
        /\ o.throwAt = "content" =>
              [o EXCEPT !.handlerShotThrows = FALSE, !.throwAt = "none",
                        !.response_status = 200] = NominalObs(links) }

SignInLinks ==
    << Href("skip", "", <<>>, None),
       Rel(<<"privacy">>, None),
       Href("abs", "https://example.org", <<"about">>, None),
       Rel(<<"sign-in">>, None) >>

DashboardLinks ==
    << Rel(<<"privacy">>, None),
       Rel(<<"privacy", "vendors", "[id]">>, None),
       Href("protorel", OTHER_ORIGIN, <<"widget">>, None),
       Href("abs", BASE_URL, <<"privacy", "reports">>, None),
       Rel(<<"privacy", "reports">>, None),
       Rel(<<"privacy", "dsar">>, None) >>

\* the a[href] elements a page of the site can show
LinkChoices(s, url) ==
    IF url.origin = BASE_URL /\ url.route = VendorsRoute /\ url.id # None
    THEN IF s = "large"
         THEN IF url.id < ChainLen
              THEN {<<Rel(VendorsRoute, url.id + 1)>>} ELSE {<<>>}
         ELSE {<<Rel(VendorsRoute, (url.id % CycleLen) + 1)>>}
    ELSE IF s = "small" /\ url = SignInUrl THEN {<<>>, SignInLinks}
    ELSE IF s = "small" /\ url = DashboardUrl THEN {<<>>, DashboardLinks}
    ELSE {<<>>}

\* what test_page can observe at url
ObsChoices(s, url) ==
    UNION { IF s \in {"small", "flaky"} /\ url = SignInUrl
            THEN SmallObs(links)
            ELSE IF s = "flaky" /\ url = FlakyUrl THEN FullObs(links)
            ELSE {NominalObs(links)}
            : links \in LinkChoices(s, url) }

Landings ==
    { [route |-> <<"privacy">>, callback |-> <<>>],
      [route |-> <<>>, callback |-> <<>>],
      [route |-> <<"sign-in">>, callback |-> <<>>],
      [route |-> <<"sign-in">>, callback |-> <<"privacy">>] }

AuthOk ==
    [throws |-> FALSE, emailVisible |-> TRUE, buttonVisible |-> TRUE,
     current_url |-> [route |-> <<"privacy">>, callback |-> <<>>]]

\* what authenticate can observe
AuthChoices(s) ==
    IF s = "small"
    THEN { a \in [throws : BOOLEAN, emailVisible : BOOLEAN,
                  buttonVisible : BOOLEAN, current_url : Landings] :
             /\ a.throws => [a EXCEPT !.throws = FALSE] = AuthOk
             /\ ~a.emailVisible => [a EXCEPT !.emailVisible = TRUE] = AuthOk
             /\ ~a.buttonVisible => [a EXCEPT !.buttonVisible = TRUE] = AuthOk }
    ELSE {AuthOk}

ListPages == {"data-inventory", "dsar", "assessments", "incidents", "vendors"}

NoAnchors == [l \in ListPages |-> <<>>]

\* the anchors the five list pages can show
AnchorChoices(s) ==
    IF s = "small"
    THEN { NoAnchors,
           [NoAnchors EXCEPT
              !["data-inventory"] =
                  << Rel(<<"privacy", "data-inventory", "new">>, None),
                     Rel(<<"privacy", "data-inventory",
                           "processing-activities">>, None),
                     Rel(<<"privacy", "data-inventory">>, 7) >>,
              !["dsar"] =
                  << Rel(<<"privacy", "dsar", "settings">>, None),
                     Rel(<<"privacy", "dsar">>, None),
                     Rel(<<"privacy", "dsar">>, 5),
                     Rel(<<"privacy", "dsar">>, 6) >>,
              !["vendors"] =
                  << Rel(VendorsRoute, 1), Rel(VendorsRoute, 1),
                     Rel(VendorsRoute, 2) >>],
           [NoAnchors EXCEPT
              !["vendors"] =
                  << Rel(<<"privacy", "vendors", "new">>, None),
                     Rel(<<"privacy", "vendors", "[id]">>, None),
                     Rel(VendorsRoute, 1) >>] }
    ELSE { [NoAnchors EXCEPT !["vendors"] = <<Rel(VendorsRoute, 1)>>] }

\* whether a navigation of test_dynamic_routes / test_button_functionality
\* can throw
NavigationThrows(s) == IF s = "small" THEN BOOLEAN ELSE {FALSE}

---------------------------------------------------------------------------
(* run() and main() *)

Init ==
    /\ pc = "public"
    /\ site \in Sites
    /\ route_idx = 1
    /\ visited_urls = {}
    /\ pending_urls = <<>>
    /\ results = <<>>
    /\ observed = <<>>
    /\ enqueued = {}
    /\ page_count = 0
    /\ compile_idx = 1
    /\ auth = "none"
    /\ auth_obs = AuthOk
    /\ report = EmptyReport
    /\ exit_code = NotExited

\* self.visited_urls.add(url)
MarkVisited(visited, url) == visited \cup {url}

\* the appends of one operation, remembered with the operation and with
\* whether the URL was in visited_urls when it was appended
Enqueue(added, by) ==
    enqueued \cup { [url |-> added[k], by |-> by,
                      seen |-> added[k] \in visited_urls] : k \in DOMAIN added }

\* test url, then self.visited_urls.add(url); self.report.results.append
TestAndRecord(url, by) ==
    \E obs \in ObsChoices(site, url) :
        LET t == test_page(url, obs, visited_urls, pending_urls)
        IN  /\ visited_urls' = MarkVisited(visited_urls, url)
            /\ results' = Append(results, t.result)
            /\ observed' = Append(observed, obs)
            /\ pending_urls' = t.pending
            /\ enqueued' = Enqueue(t.added, by)

\* one iteration of "for route in PUBLIC_ROUTES"
TestPublicRoute ==
    /\ pc = "public"
    /\ route_idx <= Len(PUBLIC_ROUTES)
    /\ LET url == RouteUrl(PUBLIC_ROUTES[route_idx])
       IN  IF url \notin visited_urls
           THEN TestAndRecord(url, "link")
           ELSE UNCHANGED <<visited_urls, results, observed, pending_urls,
                            enqueued>>
    /\ route_idx' = route_idx + 1
    /\ pc' = IF route_idx = Len(PUBLIC_ROUTES) THEN "auth" ELSE "public"
    /\ UNCHANGED <<site, page_count, compile_idx, auth, auth_obs, report,
                   exit_code>>

\* mutant: the run goes on whatever authenticate returns
AfterAuthenticate_GoOn(ok) == "seed"

\* "if not self.authenticate(): ... return self.report", else go on
AfterAuthenticate(ok) == IF ok THEN "seed" ELSE "returned"

\* "if not self.authenticate(): ... return self.report"
Authenticate ==
    /\ pc = "auth"
    /\ \E a \in AuthChoices(site) :
        /\ auth_obs' = a
        /\ auth' = IF authenticate(a) THEN "ok" ELSE "failed"
        /\ pc' = AfterAuthenticate(authenticate(a))
    /\ UNCHANGED <<site, route_idx, visited_urls, pending_urls, results,
                   observed, enqueued, page_count, compile_idx, report,
                   exit_code>>

\* the static routes not yet visited, in order
RECURSIVE StaticSeeds(_, _)
StaticSeeds(routes, visited) ==
    IF routes = <<>> THEN <<>>
    ELSE (IF RouteUrl(Head(routes)) \notin visited
          THEN <<RouteUrl(Head(routes))>> ELSE <<>>)
         \o StaticSeeds(Tail(routes), visited)

\* "for route in STATIC_ROUTES: ... self.pending_urls.append(url)"
SeedStaticRoutes ==
    /\ pc = "seed"
    /\ LET seeds == StaticSeeds(STATIC_ROUTES, visited_urls)
       IN  /\ pending_urls' = pending_urls \o seeds
           /\ enqueued' = Enqueue(seeds, "seed")
    /\ pc' = "dynamic"
    /\ UNCHANGED <<site, route_idx, visited_urls, results, observed,
                   page_count, compile_idx, auth, auth_obs, report,
                   exit_code>>

\* self.test_dynamic_routes(): its navigations are outside any try block
TestDynamicRoutes ==
    /\ pc = "dynamic"
    /\ \E throws \in NavigationThrows(site), anchors \in AnchorChoices(site) :
        IF throws
        THEN /\ pc' = "crashed"
             /\ exit_code' = 1
             /\ UNCHANGED <<pending_urls, enqueued, page_count>>
        ELSE LET u == AddUnique(DynamicRoutes(anchors), visited_urls,
                                [pending |-> pending_urls, added |-> <<>>])
             IN  /\ pending_urls' = u.pending
                 /\ enqueued' = Enqueue(u.added, "harvest")
                 /\ page_count' = 0
                 /\ pc' = "crawl"
                 /\ UNCHANGED exit_code
    /\ UNCHANGED <<site, route_idx, visited_urls, results, observed,
                   compile_idx, auth, auth_obs, report>>

\* mutant: off by one in the cap
LoopCondition_OffByOne(pending, count) ==
    pending # <<>> /\ count <= MAX_PAGES

\* mutant: the loop stops one page before the cap
LoopCondition_StopsEarly(pending, count) ==
    pending # <<>> /\ count < MAX_PAGES - 1

\* mutant: the origin test is inverted
SkipUrl_OriginInverted(url, visited) ==
    url \in visited \/ url.origin = BASE_URL

\* mutant: the loop does not look at the visited set
SkipUrl_NoVisited(url, visited) == url.origin # BASE_URL

\* "while self.pending_urls and page_count < MAX_PAGES"
LoopCondition(pending, count) == pending # <<>> /\ count < MAX_PAGES

\* the two "continue" tests of the loop body
SkipUrl(url, visited) == url \in visited \/ url.origin # BASE_URL

\* one iteration of the while loop
CrawlStep ==
    /\ pc = "crawl"
    /\ LoopCondition(pending_urls, page_count)
    /\ LET url == Head(pending_urls)
       IN  IF SkipUrl(url, visited_urls)
           THEN /\ pending_urls' = Tail(pending_urls)
                /\ UNCHANGED <<visited_urls, results, observed, enqueued,
                               page_count>>
           ELSE /\ \E obs \in ObsChoices(site, url) :
                     LET t == test_page(url, obs, visited_urls,
                                        Tail(pending_urls))
                     IN  /\ visited_urls' = MarkVisited(visited_urls, url)
                         /\ results' = Append(results, t.result)
                         /\ observed' = Append(observed, obs)
                         /\ pending_urls' = t.pending
                         /\ enqueued' = Enqueue(t.added, "link")
                /\ page_count' = page_count + 1
    /\ UNCHANGED <<pc, site, route_idx, compile_idx, auth, auth_obs, report,
                   exit_code>>

\* the loop condition fails
CrawlEnd ==
    /\ pc = "crawl"
    /\ ~LoopCondition(pending_urls, page_count)
    /\ pc' = "buttons"
    /\ UNCHANGED <<site, route_idx, visited_urls, pending_urls, results,
                   observed, enqueued, page_count, compile_idx, auth,
                   auth_obs, report, exit_code>>

\* self.test_button_functionality(): its navigations are outside any try
TestButtonFunctionality ==
    /\ pc = "buttons"
    /\ \E throws \in NavigationThrows(site) :
        IF throws
        THEN pc' = "crashed" /\ exit_code' = 1
        ELSE pc' = "compile" /\ UNCHANGED exit_code
    /\ UNCHANGED <<site, route_idx, visited_urls, pending_urls, results,
                   observed, enqueued, page_count, compile_idx, auth,
                   auth_obs, report>>

\* one iteration of "for result in self.report.results" in _compile_report
CompileStep ==
    /\ pc = "compile"
    /\ compile_idx <= Len(results)
    /\ report' = Tally(report, results[compile_idx])
    /\ compile_idx' = compile_idx + 1
    /\ UNCHANGED <<pc, site, route_idx, visited_urls, pending_urls, results,
                   observed, enqueued, page_count, auth, auth_obs, exit_code>>

\* the loop of _compile_report is over; return self.report
CompileEnd ==
    /\ pc = "compile"
    /\ compile_idx > Len(results)
    /\ pc' = "returned"
    /\ UNCHANGED <<site, route_idx, visited_urls, pending_urls, results,
                   observed, enqueued, page_count, compile_idx, auth,
                   auth_obs, report, exit_code>>

\* success = verifier.print_report(); sys.exit(0 if success else 1)
PrintReport ==
    /\ pc = "returned"
    /\ exit_code' = IF report.pages_failed = 0 THEN 0 ELSE 1
    /\ pc' = "exited"
    /\ UNCHANGED <<site, route_idx, visited_urls, pending_urls, results,
                   observed, enqueued, page_count, compile_idx, auth,
                   auth_obs, report>>

Next ==
    \/ TestPublicRoute
    \/ Authenticate
    \/ SeedStaticRoutes
    \/ TestDynamicRoutes
    \/ CrawlStep
    \/ CrawlEnd
    \/ TestButtonFunctionality
    \/ CompileStep
    \/ CompileEnd
    \/ PrintReport

Spec == Init /\ [][Next]_vars

\* the script is one sequential process that is never suspended: a step
\* that can be taken is taken
FairSpec == Spec /\ WF_vars(Next)

---------------------------------------------------------------------------
(* Properties *)

Finished == pc = "exited"

PublicUrls == { RouteUrl(PUBLIC_ROUTES[k]) : k \in DOMAIN PUBLIC_ROUTES }

\* the error conditions of a loaded page, from what the browser showed
ErrorCondition(k) ==
    \/ HasIndicator(observed[k].page_text)
    \/ observed[k].overlay_count > 0
    \/ results[k].http_status >= 400

\* C1: the process exits with 0 exactly when no result of the report has
\* status "error", on every path through run() and print_report()
C1_ExitCodeIffNoError ==
    Finished =>
        (exit_code = 0 <=> \A k \in DOMAIN results : results[k].status # "error")

\* C2 as stated: the report never holds more than MAX_PAGES results
C2_RunWithinCap == Len(results) <= MAX_PAGES

\* C2 amended: the crawl loop tests at most MAX_PAGES pages; the public
\* routes are tested before it and are not counted, so the report holds at
\* most MAX_PAGES + len(PUBLIC_ROUTES) results
C2_CrawlWithinCap ==
    /\ page_count <= MAX_PAGES
    /\ Len(results) <= Len(PUBLIC_ROUTES) + page_count

\* the cap stops the loop while URLs are still pending
C2_CapReached ==
    /\ Finished
    /\ page_count = MAX_PAGES
    /\ pending_urls # <<>>
    /\ Len(results) = MAX_PAGES + Len(PUBLIC_ROUTES)

\* C3: no URL with a bracketed route-parameter segment is ever appended to
\* the pending queue, by link discovery, seeding or harvesting
C3_NoDynamicEnqueued ==
    \A e \in enqueued :
        \A k \in DOMAIN e.url.route : e.url.route[k] \notin BracketSegs

\* C4: no two results of the report have the same URL
C4_TestedOnce ==
    \A j, k \in DOMAIN results : results[j].url = results[k].url => j = k

\* a URL was appended as a link and as a seed, another popped as already
\* visited, and the run is over
C4_SeedAlsoLinked ==
    /\ Finished
    /\ \E e1, e2 \in enqueued :
        /\ e1.url = e2.url
        /\ e1.by = "link"
        /\ e2.by = "seed"
        /\ \E k \in DOMAIN results : results[k].url = e1.url
    /\ \E k \in DOMAIN results :
        Contains(results[k].links_found, results[k].url)

\* C5: after authentication nothing but the page cap keeps a pending
\* same-origin URL from being tested: a run that is over has tested the
\* whole frontier or reached the cap
C5_FrontierTested ==
    (pc \in {"crashed", "exited"} /\ auth = "ok") =>
        \/ page_count = MAX_PAGES
        \/ \A k \in DOMAIN pending_urls : SkipUrl(pending_urls[k], visited_urls)

\* C6: when authenticate() returns false only public routes are in the report
C6_AuthFailureStopsRun ==
    auth = "failed" =>
        /\ pc \in {"returned", "exited"}
        /\ \A k \in DOMAIN results : results[k].url \in PublicUrls
        /\ Len(results) <= Len(PUBLIC_ROUTES)

\* authentication failed after a public page had put links in the queue
C6_AuthFailedWithPending ==
    /\ Finished
    /\ auth = "failed"
    /\ Len(results) = Len(PUBLIC_ROUTES)
    /\ pending_urls # <<>>

\* C7: a result has status "error" only if the page showed an error
\* indicator or the error overlay, the HTTP status was >= 400, or page.goto
\* threw
C7_ErrorHasCause ==
    \A k \in DOMAIN results :
        results[k].status = "error" =>
            ErrorCondition(k) \/ observed[k].throwAt = "goto"

\* C8: a result with status "warning" has no error condition, no exception
\* and at least one console error; a page with an error condition is
\* classified "error" whatever its console shows
C8_WarningMeansConsoleOnly ==
    \A k \in DOMAIN results :
        /\ results[k].status = "warning" =>
              /\ ~ErrorCondition(k)
              /\ observed[k].throwAt = "none"
              /\ Len(results[k].console_errors) >= 1
        /\ (ErrorCondition(k) /\ observed[k].throwAt # "goto") =>
              results[k].status = "error"

\* one page is a warning, another has an error condition and console errors
C8_WarningAndErrorSeen ==
    \E j, k \in DOMAIN results :
        /\ results[j].status = "warning"
        /\ results[k].status = "error"
        /\ ErrorCondition(k)
        /\ observed[k].throwAt = "none"
        /\ results[k].console_errors # <<>>

\* C9 as stated: every error or warning result has a screenshot path, every
\* success result has none
C9_ScreenshotRecorded ==
    \A k \in DOMAIN results :
        /\ results[k].status \in {"error", "warning"} =>
              results[k].screenshot_path # NoPath
        /\ results[k].status = "success" => results[k].screenshot_path = NoPath

\* the exception handler of test_page ran and its own screenshot failed
HandlerShotFailed(k) ==
    /\ observed[k].handlerShotThrows
    /\ \/ observed[k].throwAt \in {"goto", "content", "count"}
       \/ /\ observed[k].throwAt = "screenshot"
          /\ \/ ErrorCondition(k)
             \/ results[k].console_errors # <<>>

\* C9 amended: a warning result has a screenshot path, a success result has
\* none, and an error result has one unless the screenshot taken in the
\* exception handler of test_page failed
C9_ScreenshotUnlessHandlerFails ==
    \A k \in DOMAIN results :
        /\ results[k].status = "warning" => results[k].screenshot_path # NoPath
        /\ results[k].status = "success" => results[k].screenshot_path = NoPath
        /\ results[k].status = "error" =>
              (results[k].screenshot_path = NoPath <=> HandlerShotFailed(k))

\* error results with and without a screenshot, by exception and by content
C9_ErrorWithoutScreenshot ==
    \E j, k \in DOMAIN results :
        /\ results[j].status = "error"
        /\ observed[j].throwAt = "goto"
        /\ results[j].screenshot_path # NoPath
        /\ results[k].status = "error"
        /\ results[k].screenshot_path = NoPath

\* the results with a given status, and the console errors of all results
CountStatus(st) == Cardinality({k \in DOMAIN results : results[k].status = st})
ConsoleErrorCount ==
    Cardinality(UNION { { <<k, j>> : j \in DOMAIN results[k].console_errors }
                        : k \in DOMAIN results })

\* C10: once the report is compiled its counts partition the results by
\* status and total_console_errors is the sum of the console_errors lengths
C10_CountsPartition ==
    (pc \in {"returned", "exited"} /\ auth = "ok") =>
        /\ report.total_pages
             = report.pages_passed + report.pages_with_warnings
               + report.pages_failed
        /\ report.total_pages = Len(results)
        /\ report.pages_passed = CountStatus("success")
        /\ report.pages_with_warnings = CountStatus("warning")
        /\ report.pages_failed = CountStatus("error")
        /\ report.total_console_errors = ConsoleErrorCount

\* a compiled report with results of the three kinds and console errors
C10_MixedReport ==
    /\ Finished
    /\ auth = "ok"
    /\ report.pages_passed > 0
    /\ report.pages_with_warnings > 0
    /\ report.pages_failed > 0
    /\ report.total_console_errors > 1

\* the detail pages of the small site, which link to one another in a cycle
CyclePages ==
    { [origin |-> BASE_URL, route |-> VendorsRoute, id |-> n] : n \in 1..CycleLen }

ResultsFor(urls) == {k \in DOMAIN results : results[k].url \in urls}

\* C11: the crawl loop terminates on every link graph, ending with the
\* queue empty or the cap reached, and a cycle of pages that was entered
\* ends with exactly one report entry for each of its pages
C11_LoopTerminates ==
    /\ (pc = "crawl") ~> (pc = "buttons")
    /\ [](pc = "buttons" => (pending_urls = <<>> \/ page_count = MAX_PAGES))
    /\ []((pc = "buttons" /\ site # "large"
           /\ \E e \in enqueued : e.url \in CyclePages)
            => /\ Cardinality(ResultsFor(CyclePages)) = CycleLen
               /\ \A u \in CyclePages : \E k \in DOMAIN results :
                     results[k].url = u)

\* the cycle was crawled: its last page links back to a tested page
C11_CycleCrawled ==
    /\ pc = "buttons"
    /\ site = "small"
    /\ pending_urls = <<>>
    /\ Cardinality(ResultsFor(CyclePages)) = CycleLen
    /\ \E k \in ResultsFor(CyclePages) :
        \E j \in DOMAIN results :
            /\ j < k
            /\ results[j].url \in CyclePages
            /\ Contains(results[k].links_found, results[j].url)

\* the crawl loop is over and run() went on
LoopEnded == pc \in {"buttons", "compile", "returned", "exited"} /\ auth = "ok"

\* C12: when authentication succeeded and the loop ended below the cap,
\* every same-origin URL ever appended to the pending queue has exactly one
\* result in the report
C12_EnqueuedTestedOnce ==
    (LoopEnded /\ page_count < MAX_PAGES) =>
        \A e \in enqueued :
            e.url.origin = BASE_URL =>
                Cardinality(ResultsFor({e.url})) = 1

\* links, seeds and harvested URLs were appended, one of another origin,
\* one by a public page, and the loop ended below the cap
C12_AllKindsEnqueued ==
    /\ LoopEnded
    /\ page_count < MAX_PAGES
    /\ \A by \in {"link", "seed", "harvest"} : \E e \in enqueued : e.by = by
    /\ \E e \in enqueued : e.url.origin # BASE_URL
    /\ \E k \in DOMAIN results :
        /\ results[k].url \in PublicUrls
        /\ results[k].links_found # <<>>

\* C13: the pending queue never holds a URL at two positions, and holds no
\* URL that was visited before it was appended
C13_PendingUnique ==
    /\ \A j, k \in DOMAIN pending_urls :
          pending_urls[j] = pending_urls[k] => j = k
    /\ \A e \in enqueued : ~e.seen

\* the page authenticate() ends on is the sign-in page
OnSignInPage(u) == u.route = PUBLIC_ROUTES[1]

\* C14: authenticate() returns true only if the email field and the button
\* were visible and the browser has left the sign-in page
C14_AuthMeansLeftSignIn ==
    auth = "ok" =>
        /\ auth_obs.emailVisible
        /\ auth_obs.buttonVisible
        /\ ~OnSignInPage(auth_obs.current_url)

\* C15: whenever run() has returned, total_pages is the number of results
\* and pages_failed the number of results with status "error"
C15_ReturnedReportCounts ==
    pc \in {"returned", "exited"} =>
        /\ report.total_pages = Len(results)
        /\ report.pages_failed = CountStatus("error")

====
